---- MODULE Spec2Model ----
(***************************************************************************)
(* The in-memory indexer of the search engine, DocarrayIndexerV3           *)
(* (src/now_executors/docarray_indexer/docarray_indexer_v3.py): the stored *)
(* collection self.index and the request handlers /index, /list, /search,  *)
(* /delete and /filter.  In Spec every action is one whole handler call;  *)
(* in SpecConcurrent requests are in flight and a handler is the steps it  *)
(* makes on self.index.  SpecMapping and SpecQueryEngine are the mapping   *)
(* builder and the query engine of the persistent backend                  *)
(* (NOWElasticIndexer), SpecBff the /search route of the BFF.              *)
(* SpecOversample starts the indexer from stores with many chunks per      *)
(* parent, SpecReuse has a caller that passes one parameters dict again,   *)
(* and SpecPlayground is the playground's memoized call_flow               *)
(* (src/deployment/playground/src/search.py).                              *)
(*                                                                         *)
(* docarray's DocumentArray is modelled by what the handlers use of it:    *)
(*   - a Python list of documents (extend, slicing, iteration, remove);    *)
(*   - da['@r'] is the array itself, da['@c'] a new array of the chunks;   *)
(*   - da[id] looks the id up among the array's own elements only and      *)
(*     raises KeyError when no element has it;                             *)
(*   - find(filter) keeps the elements all of whose conditions hold; for   *)
(*     an empty filter it returns every element, as the array itself or as *)
(*     a new array depending on the docarray release, so both are allowed; *)
(*   - match ranks the candidates by distance between embeddings, the      *)
(*     order among equal distances being unspecified.                      *)
(***************************************************************************)
EXTENDS Integers, Sequences, FiniteSets, TLC

VARIABLES
    index,      \* self.index: the stored collection, a sequence of documents
    op,         \* the handler that ran last ("idle" between requests)
    params,     \* its `parameters`
    input,      \* its `docs` (call_flow: the number of the query text)
    pre,        \* self.index when it was called (call_flow: the session then)
    ret,        \* what it returned (<<>> when it raised)
    err,        \* "none", or the exception that ended it
    ranked,     \* /search: the match lists docs.match produced, per query
    aliased,    \* /delete: find returned self.index itself
    inflight,   \* requests clients have sent and the executor has not taken
    running,    \* the handler calls in progress, each with its locals
    held,       \* a parameters dict an in-process caller keeps and passes again
    session     \* the playground: st.session_state and the cache of call_flow

vars == <<index, op, params, input, pre, ret, err, ranked, aliased, inflight, running,
          held, session>>

conc == <<inflight, running, held, session>>

-----------------------------------------------------------------------------
(* Bounds of the model *)

MaxStore == 2       \* /index is taken while the store holds at most this many
MaxLimit == 2       \* `limit` parameters range over 0..MaxLimit

(* Program constants *)

DefaultLimit == 20          \* parameters.get("limit", 20)
OversampleFactor == 10      \* match_limit = limit * 10
maxsize == 1000000          \* stands for sys.maxsize (2^63 - 1): above any
                            \* offset + length the model reaches
DefaultTraversal == "@r"    \* __init__(traversal_paths="@r")

EmptyDict == [k \in {} |-> 0]  \* {}: a parameters dict without keys

\* the playground before its first search: session_state.search_count and
\* error_msg, the cache of call_flow (least recently used first), the number of
\* HTTP requests sent, and the record of the calls made: the query numbers of
\* all calls and of the calls that returned, each least recently used first,
\* and how many calls were made, repeated a query or met an unusual response
NewSession ==
    [search_count |-> 0, error_msg |-> "unset", cache |-> <<>>, posts |-> 0,
     called |-> <<>>, returned |-> <<>>, calls |-> 0, repeats |-> 0, unusual |-> 0]
NoParent == "none"          \* parent_id of a root document

-----------------------------------------------------------------------------
(* Documents *)

Ids == {"a", "b"}
Colors == {"red", "blue"}
ChunkIdLists == {<<"c">>, <<"a", "b">>}

\* The embedding is one coordinate; documents of the pool get it from their id.
Emb(id) == CASE id = "a" -> 0 [] id = "b" -> 2 [] OTHER -> 1

Chunk(cid, parent, color) ==
    [id |-> cid, parent_id |-> parent, uri |-> "", tags |-> [color |-> color],
     embedding |-> Emb(cid), chunks |-> <<>>]

Root(id, color, cids) ==
    [id |-> id, parent_id |-> NoParent, uri |-> "uri", tags |-> [color |-> color],
     embedding |-> Emb(id),
     chunks |-> [i \in 1..Len(cids) |-> Chunk(cids[i], id, color)]]

Pool == {Root(id, color, cids) : id \in Ids, color \in Colors, cids \in ChunkIdLists}

Batches == {<<d>> : d \in Pool} \cup {<<d, e>> : d \in Pool, e \in Pool}

-----------------------------------------------------------------------------
(* Helpers on sequences *)

IdsOf(da) == [i \in 1..Len(da) |-> da[i].id]

NoDuplicates(s) == \A i, j \in 1..Len(s) : s[i] = s[j] => i = j

Min(a, b) == IF a < b THEN a ELSE b

\* A Python slice s[lo:hi] for 0 <= lo, 0 <= hi.
Slice(s, lo, hi) == SubSeq(s, lo + 1, Min(hi, Len(s)))

\* parameters.get(key, default)
Get(p, key, default) == IF key \in DOMAIN p THEN p[key] ELSE default

-----------------------------------------------------------------------------
(* /index *)

IndexExtend(da, docs) == da \o docs

Index(docs) ==
    /\ op = "idle"
    /\ Len(index) + Len(docs) <= MaxStore
    /\ index' = IndexExtend(index, docs)
    /\ op' = "index"
    /\ params' = EmptyDict
    /\ input' = docs
    /\ pre' = index
    /\ ret' = <<>>
    /\ err' = "none"
    /\ ranked' = <<>>
    /\ aliased' = FALSE
    /\ UNCHANGED conc

-----------------------------------------------------------------------------
(* /list *)

\* Projection without tags=d.tags
ProjectionNoTags(d) == [id |-> d.id, uri |-> d.uri, tags |-> EmptyDict, chunks |-> <<>>]

\* Document(id=d.id, uri=d.uri, tags=d.tags)
Projection(d) == [id |-> d.id, uri |-> d.uri, tags |-> d.tags, chunks |-> <<>>]

\* ListPart with the slice index[offset : limit]
ListPartToLimit(da, p) ==
    Slice(da, Get(p, "offset", 0), Get(p, "limit", maxsize))

\* lines 28-30
ListPart(da, p) ==
    LET limit == Get(p, "limit", maxsize)
        offset == Get(p, "offset", 0)
    IN  Slice(da, offset, offset + limit)

ListResult(da, p) ==
    LET part == ListPart(da, p) IN [i \in 1..Len(part) |-> Projection(part[i])]

ListParams ==
    LET Limits == {EmptyDict} \cup [limit : 0..MaxLimit]
        Offsets == {EmptyDict} \cup [offset : 0..(MaxStore + 1)]
    IN  {l @@ o : l \in Limits, o \in Offsets}

List(p) ==
    /\ op = "idle"
    /\ index' = index
    /\ op' = "list"
    /\ params' = p
    /\ input' = <<>>
    /\ pre' = index
    /\ ret' = ListResult(index, p)
    /\ err' = "none"
    /\ ranked' = <<>>
    /\ aliased' = FALSE
    /\ UNCHANGED conc

-----------------------------------------------------------------------------
(* Filters.  A filter dict is [and, leaves]: with `and` its one key is '$and' *)
(* and the leaves are the dicts of that list; without, the leaves are its own *)
(* keys.  A leaf {key: {op: val}} is [path, op, val], the key split at '__'.  *)

Leaf(key, val) == [path |-> <<key>>, op |-> "$eq", val |-> val]

EmptyFilter == [and |-> FALSE, leaves |-> <<>>]

AndFilter(leaves) == [and |-> TRUE, leaves |-> leaves]

BareFilter(leaves) == [and |-> FALSE, leaves |-> leaves]

IsEmptyDict(f) == ~f.and /\ f.leaves = <<>>

\* PrefixTag without the prefix
PrefixTagNone(leaf) == leaf

\* query['tags__' + tag] = query[tag]; del query[tag]
PrefixTag(leaf) == [leaf EXCEPT !.path = <<"tags">> \o @]

\* mutation of TranslateFilter: only the first leaf of the list is moved
TranslateFilterFirstLeaf(f) ==
    IF f.and
    THEN [f EXCEPT !.leaves = [i \in 1..Len(f.leaves) |->
                                  IF i = 1 THEN PrefixTag(f.leaves[i]) ELSE f.leaves[i]]]
    ELSE f

\* lines 107-113: the leaves of a '$and' list are moved to the tag namespace
TranslateFilter(f) ==
    IF f.and
    THEN [f EXCEPT !.leaves = [i \in 1..Len(f.leaves) |-> PrefixTag(f.leaves[i])]]
    ELSE f

\* docarray's lookup of a leaf on a document: tags__<key> reads the tag, id the
\* id; a path that names nothing on the document does not hold.
LeafHolds(d, leaf) ==
    CASE Len(leaf.path) = 2 /\ leaf.path[1] = "tags" ->
            leaf.path[2] \in DOMAIN d.tags /\ d.tags[leaf.path[2]] = leaf.val
      [] leaf.path = <<"id">> -> d.id = leaf.val
      [] OTHER -> FALSE

FilterHolds(d, f) == \A i \in 1..Len(f.leaves) : LeafHolds(d, f.leaves[i])

\* da.find(filter=f)
Find(da, f) ==
    IF IsEmptyDict(f) THEN da ELSE LET Test(d) == FilterHolds(d, f) IN SelectSeq(da, Test)

\* filter_docs(parameters), on the store `da`
filter_docs(da, p) == Find(da, TranslateFilter(Get(p, "filter", EmptyFilter)))

Filters ==
    {EmptyFilter, AndFilter(<<Leaf("color", "red")>>),
     AndFilter(<<Leaf("color", "red"), Leaf("color", "blue")>>),
     BareFilter(<<Leaf("color", "red")>>)}

-----------------------------------------------------------------------------
(* /delete *)

\* list.remove(d): the first element equal to d goes
RECURSIVE RemoveFirst(_, _)
RemoveFirst(s, d) ==
    IF s = <<>> THEN <<>>
    ELSE IF Head(s) = d THEN Tail(s)
    ELSE <<Head(s)>> \o RemoveFirst(Tail(s), d)

\* for doc in filtered_docs: self.index.remove(doc), filtered_docs a separate array
RECURSIVE RemoveEach(_, _)
RemoveEach(da, filtered) ==
    IF filtered = <<>> THEN da
    ELSE RemoveEach(RemoveFirst(da, Head(filtered)), Tail(filtered))

\* the same loop when filtered_docs is self.index itself: the list iterator
\* goes on at position i of the list as the removals left it
RECURSIVE RemoveIterating(_, _)
RemoveIterating(da, i) ==
    IF i > Len(da) THEN da
    ELSE RemoveIterating(RemoveFirst(da, da[i]), i + 1)

DeleteLoop(da, filtered, alias) ==
    IF alias THEN RemoveIterating(da, 1) ELSE RemoveEach(da, filtered)

IdLists == {<<"a">>, <<"b">>, <<"a", "b">>, <<"z">>}

DeleteParams ==
    {EmptyDict} \cup [ids : IdLists] \cup [filter : Filters]

Delete(p, alias) ==
    /\ op = "idle"
    /\ alias => IsEmptyDict(TranslateFilter(Get(p, "filter", EmptyFilter)))
    /\ index' = DeleteLoop(index, filter_docs(index, p), alias)
    /\ op' = "delete"
    /\ params' = p
    /\ input' = <<>>
    /\ pre' = index
    /\ ret' = <<>>
    /\ err' = "none"
    /\ ranked' = <<>>
    /\ aliased' = alias
    /\ UNCHANGED conc

-----------------------------------------------------------------------------
(* /search *)

Range(s) == {s[i] : i \in 1..Len(s)}

\* da[traversal_paths]
RECURSIVE ChunksOf(_)
ChunksOf(da) == IF da = <<>> THEN <<>> ELSE Head(da).chunks \o ChunksOf(Tail(da))

Traverse(da, path) == IF path = "@c" THEN ChunksOf(da) ELSE da

\* da[id]: the array's id-to-offset map holds its own elements, the last
\* offset of an id that occurs twice
HasId(da, id) == \E i \in 1..Len(da) : da[i].id = id

OffsetOf(da, id) == CHOOSE i \in 1..Len(da) :
    /\ da[i].id = id
    /\ \A j \in 1..Len(da) : da[j].id = id => j <= i

GetById(da, id) == da[OffsetOf(da, id)]

\* Distance of two embeddings (one coordinate stands for the cosine distance).
Distance(x, y) == IF x < y THEN y - x ELSE x - y

\* The candidates at offsets S by ascending distance to q.  The order among
\* equal distances is the sort's: by offset, ascending or (backwards) descending.
RECURSIVE Ranking(_, _, _, _)
Ranking(q, cands, S, backwards) ==
    IF S = {} THEN <<>>
    ELSE LET Before(i, j) ==
                \/ Distance(q, cands[i].embedding) < Distance(q, cands[j].embedding)
                \/ /\ Distance(q, cands[i].embedding) = Distance(q, cands[j].embedding)
                   /\ IF backwards THEN i >= j ELSE i <= j
             first == CHOOSE i \in S : \A j \in S : Before(i, j)
         IN  <<cands[first]>> \o Ranking(q, cands, S \ {first}, backwards)

\* one ranking per query document
RankingsOfAll(queries, cands) ==
    {[i \in 1..Len(queries) |-> Ranking(queries[i].embedding, cands, DOMAIN cands, backwards)]
        : backwards \in BOOLEAN}

\* docs.match(cands, limit): [err, matches], matches[i] those of docs[i].
\* Nothing is matched when either side is empty; limit <= 0 is a ValueError.
MatchOutcomes(queries, cands, limit) ==
    IF queries = <<>> \/ cands = <<>>
    THEN {[err |-> "none", matches |-> [i \in 1..Len(queries) |-> <<>>]]}
    ELSE IF limit <= 0
    THEN {[err |-> "ValueError", matches |-> <<>>]}
    ELSE {[err |-> "none",
           matches |-> [i \in 1..Len(queries) |-> SubSeq(rk[i], 1, Min(limit, Len(cands)))]]
            : rk \in RankingsOfAll(queries, cands)}

\* parent = deepcopy(parent); parent.chunks = []
StripChunks(parent) == [parent EXCEPT !.chunks = <<>>]

\* Collected without the check of line 102
CollectedNever(parents, limit) == FALSE

\* is the collection of parents complete?  (line 102)
Collected(parents, limit) == Len(parents) = limit

\* Seen without the check of line 93
SeenNever(m, parent_ids) == FALSE

\* was the parent of this match emitted already?  (line 93)
Seen(m, parent_ids) == m.parent_id \in Range(parent_ids)

\* lines 92-103, for one query document: [err, parents]
RECURSIVE MergeLoop(_, _, _, _, _)
MergeLoop(da, ms, limit, parents, parent_ids) ==
    IF ms = <<>> THEN [err |-> "none", parents |-> parents]
    ELSE LET m == Head(ms) IN
         IF Seen(m, parent_ids)
         THEN MergeLoop(da, Tail(ms), limit, parents, parent_ids)
         ELSE IF ~HasId(da, m.parent_id)
         THEN [err |-> "KeyError", parents |-> <<>>]
         ELSE LET grown == Append(parents, StripChunks(GetById(da, m.parent_id))) IN
              IF Collected(grown, limit)
              THEN [err |-> "none", parents |-> grown]
              ELSE MergeLoop(da, Tail(ms), limit, grown, Append(parent_ids, m.parent_id))

\* mutation of merge_matches: the matches are scanned from the worst-ranked on
merge_matchesReversed(da, matches, limit) ==
    LET merged == [i \in 1..Len(matches) |->
                      MergeLoop(da, [k \in 1..Len(matches[i]) |->
                                        matches[i][Len(matches[i]) + 1 - k]],
                                limit, <<>>, <<>>)]
    IN  IF \E i \in 1..Len(merged) : merged[i].err # "none"
        THEN [err |-> "KeyError", matches |-> <<>>]
        ELSE [err |-> "none", matches |-> [i \in 1..Len(merged) |-> merged[i].parents]]

\* merge_matches(docs, limit) on the store da: [err, matches]
merge_matches(da, matches, limit) ==
    LET merged == [i \in 1..Len(matches) |-> MergeLoop(da, matches[i], limit, <<>>, <<>>)]
    IN  IF \E i \in 1..Len(merged) : merged[i].err # "none"
        THEN [err |-> "KeyError", matches |-> <<>>]
        ELSE [err |-> "none", matches |-> [i \in 1..Len(merged) |-> merged[i].parents]]

\* Query documents: an embedding, and chunks with their own embeddings.
Query(id, emb, chunkEmbs) ==
    [id |-> id, embedding |-> emb,
     chunks |-> [i \in 1..Len(chunkEmbs) |-> [id |-> <<id, i>>, embedding |-> chunkEmbs[i]]]]

QueryBatches ==
    { <<Query("q1", 1, <<1, 0>>)>>,
      <<Query("q1", 0, <<>>), Query("q2", 1, <<1>>)>>,
      <<Query("q1", 1, <<1>>), Query("q2", 0, <<0>>)>> }

SearchFilters == {AndFilter(<<Leaf("color", "red")>>), BareFilter(<<Leaf("color", "red")>>)}

SearchParams ==
    LET Limits == {EmptyDict} \cup [limit : 0..MaxLimit]
        Paths == {EmptyDict} \cup [traversal_paths : {"@c"}]
        Flt == {EmptyDict} \cup [filter : SearchFilters]
    IN  {l @@ t @@ f : l \in Limits, t \in Paths, f \in Flt}

\* line 46: the store after self.index = self.index[traversal_paths]
SearchStore(da, p) == Traverse(da, Get(p, "traversal_paths", DefaultTraversal))

\* lines 50-53
MatchLimit(limit, path) == IF path = "@c" THEN limit * OversampleFactor ELSE limit

SearchQueries(docs, path) == IF path = "@c" THEN docs[1].chunks ELSE docs

WithMatches(queries, matches) ==
    [i \in 1..Len(queries) |-> [id |-> queries[i].id, matches |-> matches[i]]]

Search(docs, p) ==
    LET limit == Get(p, "limit", DefaultLimit)
        path == Get(p, "traversal_paths", DefaultTraversal)
        store == SearchStore(index, p)
        filtered == filter_docs(store, p)
        queries == SearchQueries(docs, path)
    IN  /\ op = "idle"
        /\ \E m \in MatchOutcomes(queries, filtered, MatchLimit(limit, path)) :
          LET out == IF m.err = "none" /\ path = "@c"
                     THEN merge_matches(store, m.matches, limit)
                     ELSE m
          IN  /\ index' = store
              /\ op' = "search"
              /\ params' = p
              /\ input' = docs
              /\ pre' = index
              /\ ret' = IF out.err = "none" THEN WithMatches(queries, out.matches) ELSE <<>>
              /\ err' = out.err
              /\ ranked' = m.matches
              /\ aliased' = FALSE
              /\ UNCHANGED conc

-----------------------------------------------------------------------------
(* /filter *)

\* self.index[traversal_paths].find(filtering_condition): the filter as given
FilterResult(da, p) ==
    Find(Traverse(da, Get(p, "traversal_paths", DefaultTraversal)),
         Get(p, "filter", EmptyFilter))

FilterParams ==
    LET Paths == {EmptyDict} \cup [traversal_paths : {"@c"}]
        Flt == {EmptyDict} \cup [filter : SearchFilters]
    IN  {t @@ f : t \in Paths, f \in Flt}

Filter(p) ==
    /\ op = "idle"
    /\ index' = index
    /\ op' = "filter"
    /\ params' = p
    /\ input' = <<>>
    /\ pre' = index
    /\ ret' = FilterResult(index, p)
    /\ err' = "none"
    /\ ranked' = <<>>
    /\ aliased' = FALSE
    /\ UNCHANGED conc

-----------------------------------------------------------------------------
(* Between two requests the executor is idle: the response is gone. *)

Respond ==
    /\ op # "idle"
    /\ op' = "idle"
    /\ params' = EmptyDict
    /\ input' = <<>>
    /\ pre' = index
    /\ ret' = <<>>
    /\ err' = "none"
    /\ ranked' = <<>>
    /\ aliased' = FALSE
    /\ UNCHANGED conc
    /\ UNCHANGED index

-----------------------------------------------------------------------------

Init ==
    /\ index = <<>>
    /\ op = "idle"
    /\ params = EmptyDict
    /\ input = <<>>
    /\ pre = <<>>
    /\ ret = <<>>
    /\ err = "none"
    /\ ranked = <<>>
    /\ aliased = FALSE
    /\ inflight = {}
    /\ running = {}
    /\ held = EmptyDict
    /\ session = NewSession

Next ==
    \/ \E docs \in Batches : Index(docs)
    \/ \E p \in ListParams : List(p)
    \/ \E p \in DeleteParams, alias \in BOOLEAN : Delete(p, alias)
    \/ \E docs \in QueryBatches, p \in SearchParams : Search(docs, p)
    \/ \E p \in FilterParams : Filter(p)
    \/ Respond

Spec == Init /\ [][Next]_vars

-----------------------------------------------------------------------------
(* Mapping builder of the persistent backend: NOWElasticIndexer.         *)
(* generate_es_mapping(document_mappings, metric).  A configuration is a  *)
(* list of FieldEmbedding(encoder, dim, fields); the schema is the ordered *)
(* 'properties' mapping, kept as the sequence of its named entries.        *)

MaxEncoders == 2

Encoders == {"clip", "sbert"}

Dims == {8, 5, 12, 0, -1}

FieldLists == {<<"title">>, <<"title", "excerpt">>, <<"title", "title">>}

Metrics == {"cosine", "l2_norm", "manhattan"}

SupportedMetrics == {"cosine", "l2_norm", "dot_product"}

FieldEmbedding(encoder, dim, fields) ==
    [encoder |-> encoder, dim |-> dim, fields |-> fields]

FieldEmbeddings ==
    {FieldEmbedding(e, d, fs) : e \in Encoders, d \in Dims, fs \in FieldLists}

DocumentMappings ==
    {<<>>} \cup UNION {[1..n -> FieldEmbeddings] : n \in 1..MaxEncoders}

\* the configuration of test_generate_es_mappings
TestMappings ==
    <<FieldEmbedding("clip", 8, <<"title">>), FieldEmbedding("sbert", 5, <<"title", "excerpt">>)>>

\* the (field, encoder, dim) triples of a configuration, in configuration order
RECURSIVE FieldPairs(_)
FieldPairs(document_mappings) ==
    IF document_mappings = <<>> THEN <<>>
    ELSE LET fe == Head(document_mappings)
         IN  [i \in 1..Len(fe.fields) |->
                 [field |-> fe.fields[i], encoder |-> fe.encoder, dim |-> fe.dim]]
             \o FieldPairs(Tail(document_mappings))

Digit(d) ==
    CASE d = 0 -> "0" [] d = 1 -> "1" [] d = 2 -> "2" [] d = 3 -> "3"
      [] d = 4 -> "4" [] d = 5 -> "5" [] d = 6 -> "6" [] d = 7 -> "7"
      [] d = 8 -> "8" [] d = 9 -> "9"

\* mutation of str: a number is written as its last digit
strLastDigit(n) == Digit(n % 10)

\* Python's str of an integer: the decimal digits, with a sign when negative
RECURSIVE str(_)
str(n) ==
    IF n < 0 THEN "-" \o str(0 - n)
    ELSE IF n < 10 THEN Digit(n)
    ELSE str(n \div 10) \o Digit(n % 10)

\* mutation of SubFieldName: the encoder is left out of the name
SubFieldNameOfField(field, encoder) == field

SubFieldName(field, encoder) == field \o "-" \o encoder

IdField == [name |-> "id", type |-> "keyword"]

Bm25Field == [name |-> "bm25_text", type |-> "text", analyzer |-> "standard"]

VectorField(pair, metric) ==
    [name |-> SubFieldName(pair.field, pair.encoder),
     type |-> "dense_vector",
     dims |-> str(pair.dim),
     similarity |-> metric,
     index |-> "true"]

VectorFields(pairs, metric) == [i \in 1..Len(pairs) |-> VectorField(pairs[i], metric)]

DuplicatePair(pairs) ==
    \E i, j \in 1..Len(pairs) :
        i # j /\ pairs[i].field = pairs[j].field /\ pairs[i].encoder = pairs[j].encoder

\* mutation of ConfigurationInvalid: nothing is validated
ConfigurationInvalidNever(pairs, metric) == FALSE

ConfigurationInvalid(pairs, metric) ==
    \/ \E i \in 1..Len(pairs) : pairs[i].dim <= 0
    \/ metric \notin SupportedMetrics
    \/ DuplicatePair(pairs)

generate_es_mapping(document_mappings, metric) ==
    LET pairs == FieldPairs(document_mappings)
    IN  IF ConfigurationInvalid(pairs, metric)
        THEN [err |-> "ConfigurationError", schema |-> <<>>]
        ELSE [err |-> "none",
              schema |-> <<IdField, Bm25Field>> \o VectorFields(pairs, metric)]

GenerateMapping(document_mappings, metric) ==
    LET m == generate_es_mapping(document_mappings, metric)
    IN  /\ op = "idle"
        /\ op' = "generate_es_mapping"
        /\ params' = [metric |-> metric]
        /\ input' = document_mappings
        /\ pre' = index
        /\ ret' = m.schema
        /\ err' = m.err
        /\ ranked' = <<>>
        /\ aliased' = FALSE
        /\ UNCHANGED conc
        /\ UNCHANGED index

NextMapping ==
    \/ /\ op = "idle"
       /\ \E document_mappings \in DocumentMappings, metric \in Metrics :
              GenerateMapping(document_mappings, metric)
    \/ Respond

SpecMapping == Init /\ [][NextMapping]_vars

-----------------------------------------------------------------------------
(* Query engine of the persistent backend: NOWElasticIndexer.search with   *)
(* the configured default_semantic_scores, a list of ScoreCriterion        *)
(* (query_field, document_field, encoder, linear_weight).  The indexed      *)
(* documents are part of the input: the engine is a function of them.       *)

MaxCriteria == 2

MaxSimilarity == 4

DefaultBm25Weight == 1

IdRank(id) == CASE id = "a" -> 1 [] id = "b" -> 2 [] id = "c" -> 3 [] OTHER -> 4

ScoreCriterion(query_field, document_field, encoder, linear_weight) ==
    [query_field |-> query_field, document_field |-> document_field,
     encoder |-> encoder, linear_weight |-> linear_weight]

ScoreCriteria ==
    {ScoreCriterion("query_text", f, e, w) :
        f \in {"title", "excerpt"}, e \in {"clip", "bm25"}, w \in {1, 3}}

SemanticScores == {<<>>} \cup UNION {[1..n -> ScoreCriteria] : n \in 1..MaxCriteria}

\* an indexed document: one vector per sub-field and the lexical score of its text
EsDoc(id, title, excerpt, bm25) ==
    [id |-> id, tags |-> [color |-> "red"], bm25 |-> bm25,
     vec |-> [n \in {"title-clip", "excerpt-clip"} |->
                 IF n = "title-clip" THEN title ELSE excerpt]]

EsStores ==
    {<<EsDoc("a", 1, 3, 2)>>,
     <<EsDoc("b", 2, 2, 1), EsDoc("a", 2, 2, 3)>>,
     <<EsDoc("c", 0, 3, 0), EsDoc("a", 3, 1, 4), EsDoc("b", 1, 1, 4)>>}

EsQueries == {[id |-> "q", query_text |-> v] : v \in {1, 2}}

EsSearchParams ==
    [get_score_breakdown : BOOLEAN, apply_default_bm25 : BOOLEAN, limit : {1, DefaultLimit}]

\* mutation of ScoreKey: the weight is left out of the key
ScoreKeyNoWeight(c) == c.query_field \o "-" \o c.document_field \o "-" \o c.encoder

ScoreKey(c) ==
    c.query_field \o "-" \o c.document_field \o "-" \o c.encoder
        \o "-" \o str(c.linear_weight)

VectorCriteria(criteria) ==
    {criteria[i] : i \in {j \in 1..Len(criteria) : criteria[j].encoder # "bm25"}}

Bm25Criteria(criteria) ==
    {criteria[i] : i \in {j \in 1..Len(criteria) : criteria[j].encoder = "bm25"}}

Bm25Active(criteria, p) == p.apply_default_bm25 \/ Bm25Criteria(criteria) # {}

Similarity(query, d, c) ==
    MaxSimilarity
        - Distance(query[c.query_field], d.vec[SubFieldName(c.document_field, c.encoder)])

Bm25Raw(d) == d.bm25

\* min-max normalisation of the lexical score to the scale of the similarities
Bm25Normalized(d, docs) ==
    LET raws == {docs[i].bm25 : i \in 1..Len(docs)}
        lo == CHOOSE x \in raws : \A y \in raws : x <= y
        hi == CHOOSE x \in raws : \A y \in raws : x >= y
    IN  IF hi = lo THEN MaxSimilarity
        ELSE ((d.bm25 - lo) * MaxSimilarity) \div (hi - lo)

RECURSIVE SetSum(_)
SetSum(S) == IF S = {} THEN 0 ELSE LET x == CHOOSE y \in S : TRUE IN x[2] + SetSum(S \ {x})

Bm25Weight(criteria) ==
    IF Bm25Criteria(criteria) = {} THEN DefaultBm25Weight
    ELSE SetSum({<<c, c.linear_weight>> : c \in Bm25Criteria(criteria)})

\* the weighted linear sum over the active criteria
CombinedScore(query, d, docs, criteria, p) ==
    SetSum({<<c, c.linear_weight * Similarity(query, d, c)>> : c \in VectorCriteria(criteria)})
        + (IF Bm25Active(criteria, p)
           THEN Bm25Weight(criteria) * Bm25Normalized(d, docs) ELSE 0)

ScoreEntries(query, d, docs, criteria, p) ==
    LET vkeys == {ScoreKey(c) : c \in VectorCriteria(criteria)}
        bkeys == IF Bm25Active(criteria, p) THEN {"bm25_raw", "bm25_normalized"} ELSE {}
    IN  [k \in vkeys \cup bkeys \cup {"score"} |->
            IF k = "score" THEN CombinedScore(query, d, docs, criteria, p)
            ELSE IF k = "bm25_raw" THEN Bm25Raw(d)
            ELSE IF k = "bm25_normalized" THEN Bm25Normalized(d, docs)
            ELSE Similarity(query, d,
                     CHOOSE c \in VectorCriteria(criteria) : ScoreKey(c) = k)]

CombinedOnly(query, d, docs, criteria, p) ==
    [k \in {"score"} |-> CombinedScore(query, d, docs, criteria, p)]

EsMatch(query, d, docs, criteria, p) ==
    [id |-> d.id, tags |-> d.tags,
     scores |-> IF p.get_score_breakdown
                THEN ScoreEntries(query, d, docs, criteria, p)
                ELSE CombinedOnly(query, d, docs, criteria, p)]

\* descending combined score, equal scores by ascending id
RECURSIVE EsRanked(_)
EsRanked(ms) ==
    IF ms = {} THEN <<>>
    ELSE LET best == CHOOSE m \in ms : \A n \in ms \ {m} :
                         \/ m.scores["score"] > n.scores["score"]
                         \/ /\ m.scores["score"] = n.scores["score"]
                            /\ IdRank(m.id) < IdRank(n.id)
         IN  <<best>> \o EsRanked(ms \ {best})

es_search(query, docs, criteria, p) ==
    LET ms == {EsMatch(query, docs[i], docs, criteria, p) : i \in 1..Len(docs)}
    IN  <<[id |-> query.id, matches |-> Slice(EsRanked(ms), 0, p.limit)]>>

EsSearch(query, docs, criteria, p) ==
    /\ op = "idle"
    /\ op' = "es_search"
    /\ params' = p
    /\ input' = [query |-> query, docs |-> docs, criteria |-> criteria]
    /\ pre' = index
    /\ ret' = es_search(query, docs, criteria, p)
    /\ err' = "none"
    /\ ranked' = <<>>
    /\ aliased' = FALSE
    /\ UNCHANGED conc
    /\ UNCHANGED index

NextQueryEngine ==
    \/ /\ op = "idle"
       /\ \E query \in EsQueries, docs \in EsStores, criteria \in SemanticScores,
             p \in EsSearchParams : EsSearch(query, docs, criteria, p)
    \/ Respond

SpecQueryEngine == Init /\ [][NextQueryEngine]_vars

-----------------------------------------------------------------------------
(* The /search route of the BFF (deployment/bff/app/v1/routers/search.py):  *)
(* the response is built from the matches of the first document the flow    *)
(* returns.  `result` is a local of the function: unbound until a match     *)
(* with a uri, a blob or a text assigns it, and kept from one turn of the   *)
(* loop to the next.                                                        *)

MaxMatches == 2

Unbound == [kind |-> "unbound", value |-> ""]

\* base64.b64encode(blob).decode('utf-8') of the blobs of the model
B64(blob) == CASE blob = "hi" -> "aGk=" [] blob = "" -> "" [] OTHER -> "Pw=="

NamedScore(value) == [value |-> value, op_name |-> "", description |-> "", ref_id |-> ""]

\* named_score.to_dict(): the fields that are set
to_dict(named_score) == [value |-> named_score.value]

BffMatch(id, uri, blob, text, color) ==
    [id |-> id, uri |-> uri, blob |-> blob, text |-> text,
     tags |-> [color |-> color], scores |-> [n \in {"cosine"} |-> NamedScore(Emb(id))]]

BffMatches ==
    {BffMatch(id, c[1], c[2], c[3], "red") :
        id \in Ids,
        c \in {<<"", "", "">>, <<"u", "", "">>, <<"", "hi", "">>,
               <<"", "", "x">>, <<"u", "", "x">>, <<"", "hi", "x">>}}

BffResponses ==
    {<<[id |-> "q", matches |-> ms]>> :
        ms \in {<<>>} \cup UNION {[1..n -> BffMatches] : n \in 1..MaxMatches}}

\* lines 79-84: `result` after the if/elif chain of one turn
ResultField(doc, result) ==
    IF doc.uri # "" THEN [kind |-> "uri", value |-> doc.uri]
    ELSE IF doc.blob # "" THEN [kind |-> "blob", value |-> B64(doc.blob)]
    ELSE IF doc.text # "" THEN [kind |-> "text", value |-> doc.text]
    ELSE result

SearchResponseModel(doc, result) ==
    [id |-> doc.id,
     scores |-> [n \in DOMAIN doc.scores |-> to_dict(doc.scores[n])],
     tags |-> doc.tags,
     fields |-> [result_field |-> result]]

\* lines 73-92: the loop over docs[0].matches from the k-th match on
RECURSIVE BffLoop(_, _, _, _)
BffLoop(ms, k, result, matches) ==
    IF k > Len(ms) THEN [err |-> "none", matches |-> matches]
    ELSE LET r == ResultField(ms[k], result)
         IN  IF r = Unbound
             THEN [err |-> "UnboundLocalError", matches |-> <<>>]
             ELSE BffLoop(ms, k + 1, r, Append(matches, SearchResponseModel(ms[k], r)))

BffSearch(docs) ==
    LET out == BffLoop(docs[1].matches, 1, Unbound, <<>>)
    IN  /\ op = "idle"
        /\ op' = "bff_search"
        /\ params' = EmptyDict
        /\ input' = docs
        /\ pre' = index
        /\ ret' = out.matches
        /\ err' = out.err
        /\ ranked' = <<>>
        /\ aliased' = FALSE
        /\ UNCHANGED conc
        /\ UNCHANGED index

NextBff ==
    \/ /\ op = "idle"
       /\ \E docs \in BffResponses : BffSearch(docs)
    \/ Respond

SpecBff == Init /\ [][NextBff]_vars

-----------------------------------------------------------------------------
(* Requests in flight.  Clients send requests without waiting for one       *)
(* another; the executor takes them in any order.  The handlers are plain   *)
(* `def` methods without locks: a handler is here the steps it makes on      *)
(* self.index, and the executor takes a request when no handler is running. *)

MaxInFlight == 2

Request(kind, docs, p) == [kind |-> kind, docs |-> docs, p |-> p]

Requests ==
    {Request("index", <<Root("a", "red", <<"a", "b">>)>>, EmptyDict),
     Request("index", <<Root("a", "blue", <<"c">>)>>, EmptyDict),
     Request("delete", <<>>, EmptyDict),
     Request("delete", <<>>, [filter |-> AndFilter(<<Leaf("color", "red")>>)]),
     Request("list", <<>>, EmptyDict),
     Request("search", <<Query("q1", 1, <<1, 0>>)>>, EmptyDict),
     Request("search", <<Query("q1", 1, <<1, 0>>)>>, [traversal_paths |-> "@c"])}

\* a handler call: its request, where it is, self.index when it was taken, and
\* its locals (filtered_docs still to remove or the iterator's position, the
\* match lists) and outcome
Handler(req, pc, start, filtered, alias, pos, matches, out, e) ==
    [req |-> req, pc |-> pc, start |-> start, filtered |-> filtered, alias |-> alias,
     pos |-> pos, matches |-> matches, ret |-> out, err |-> e]

Returned(req, start, matches, out, e) ==
    Handler(req, "done", start, <<>>, FALSE, 0, matches, out, e)

\* mutation of Serial: a request is taken while other handlers are running
SerialNever(handlers) == TRUE

\* a handler runs to its return before the next request is taken
Serial(handlers) == handlers = {}

Send(req) ==
    /\ req \notin inflight
    /\ \A h \in running : h.req # req
    /\ Cardinality(inflight) + Cardinality(running) < MaxInFlight
    /\ inflight' = inflight \cup {req}
    /\ UNCHANGED <<index, op, params, input, pre, ret, err, ranked, aliased, running, held, session>>

Take(req) ==
    /\ op = "idle"
    /\ req \in inflight
    /\ Serial(running)
    /\ inflight' = inflight \ {req}
    /\ UNCHANGED <<op, params, input, pre, ret, err, ranked, aliased, held, session>>

\* /index, line 19
IndexCall(req) ==
    /\ req.kind = "index"
    /\ Take(req)
    /\ Len(index) + Len(req.docs) <= MaxStore
    /\ index' = IndexExtend(index, req.docs)
    /\ running' = running \cup {Returned(req, index, <<>>, <<>>, "none")}

\* /list, lines 28-31
ListCall(req) ==
    /\ req.kind = "list"
    /\ Take(req)
    /\ running' = running \cup {Returned(req, index, <<>>, ListResult(index, req.p), "none")}
    /\ UNCHANGED index

\* /delete, line 66: filtered_docs = self.filter_docs(parameters)
DeleteBegin(req, alias) ==
    /\ req.kind = "delete"
    /\ Take(req)
    /\ alias => IsEmptyDict(TranslateFilter(Get(req.p, "filter", EmptyFilter)))
    /\ running' = running \cup
           {Handler(req, "remove", index,
                    IF alias THEN <<>> ELSE filter_docs(index, req.p),
                    alias, 1, <<>>, <<>>, "none")}
    /\ UNCHANGED index

\* /delete, lines 67-68: one turn of the loop; list.remove of a document that
\* is no longer in the list raises ValueError
DeleteStep(h) ==
    /\ h \in running
    /\ h.pc = "remove"
    /\ UNCHANGED <<inflight, op, params, input, pre, ret, err, ranked, aliased, held, session>>
    /\ IF h.alias
       THEN IF h.pos > Len(index)
            THEN /\ running' = (running \ {h}) \cup {[h EXCEPT !.pc = "done"]}
                 /\ UNCHANGED index
            ELSE /\ index' = RemoveFirst(index, index[h.pos])
                 /\ running' = (running \ {h}) \cup {[h EXCEPT !.pos = @ + 1]}
       ELSE IF h.filtered = <<>>
            THEN /\ running' = (running \ {h}) \cup {[h EXCEPT !.pc = "done"]}
                 /\ UNCHANGED index
            ELSE IF Head(h.filtered) \in Range(index)
            THEN /\ index' = RemoveFirst(index, Head(h.filtered))
                 /\ running' = (running \ {h}) \cup {[h EXCEPT !.filtered = Tail(@)]}
            ELSE /\ running' = (running \ {h})
                                \cup {[h EXCEPT !.pc = "done", !.err = "ValueError"]}
                 /\ UNCHANGED index

\* /search, lines 44-54: the store is replaced, filtered and matched
SearchBegin(req) ==
    LET limit == Get(req.p, "limit", DefaultLimit)
        path == Get(req.p, "traversal_paths", DefaultTraversal)
        store == SearchStore(index, req.p)
        queries == SearchQueries(req.docs, path)
    IN  /\ req.kind = "search"
        /\ Take(req)
        /\ index' = store
        /\ \E m \in MatchOutcomes(queries, filter_docs(store, req.p), MatchLimit(limit, path)) :
               running' = running \cup
                   {IF m.err = "none" /\ path = "@c"
                    THEN Handler(req, "merge", index, <<>>, FALSE, 0, m.matches, <<>>, "none")
                    ELSE Returned(req, index, m.matches,
                                  IF m.err = "none" THEN WithMatches(queries, m.matches)
                                  ELSE <<>>,
                                  m.err)}

\* /search, lines 55-56: merge_matches looks the parents up in self.index
SearchMerge(h) ==
    LET limit == Get(h.req.p, "limit", DefaultLimit)
        out == merge_matches(index, h.matches, limit)
    IN  /\ h \in running
        /\ h.pc = "merge"
        /\ running' = (running \ {h}) \cup
               {[h EXCEPT !.pc = "done",
                          !.ret = IF out.err = "none"
                                  THEN WithMatches(SearchQueries(h.req.docs, "@c"), out.matches)
                                  ELSE <<>>,
                          !.err = out.err]}
        /\ UNCHANGED <<index, inflight, op, params, input, pre, ret, err, ranked, aliased, held, session>>

\* the handler returns (or raises) and its response goes to the client
Return(h) ==
    /\ h \in running
    /\ h.pc = "done"
    /\ op = "idle"
    /\ running' = running \ {h}
    /\ op' = h.req.kind
    /\ params' = h.req.p
    /\ input' = h.req.docs
    /\ pre' = h.start
    /\ ret' = h.ret
    /\ err' = h.err
    /\ ranked' = h.matches
    /\ aliased' = h.alias
    /\ UNCHANGED <<index, inflight, held, session>>

NextConcurrent ==
    \/ \E req \in Requests : Send(req)
    \/ \E req \in inflight : IndexCall(req)
    \/ \E req \in inflight : ListCall(req)
    \/ \E req \in inflight, alias \in BOOLEAN : DeleteBegin(req, alias)
    \/ \E h \in running : DeleteStep(h)
    \/ \E req \in inflight : SearchBegin(req)
    \/ \E h \in running : SearchMerge(h)
    \/ \E h \in running : Return(h)
    \/ Respond

SpecConcurrent == Init /\ [][NextConcurrent]_vars

-----------------------------------------------------------------------------
(* Searches on stores in which one parent has as many chunks as a chunk-level *)
(* search of the largest limit asks docs.match for.                           *)

ManyChunks(n) == [i \in 1..n |-> "a"]

OversampleStores ==
    {<<Root("a", "red", ManyChunks(n)), Root("b", "red", <<"b">>)>> :
        n \in 1..(MaxLimit * OversampleFactor)}

InitOversample ==
    /\ index \in OversampleStores
    /\ op = "idle"
    /\ params = EmptyDict
    /\ input = <<>>
    /\ pre = index
    /\ ret = <<>>
    /\ err = "none"
    /\ ranked = <<>>
    /\ aliased = FALSE
    /\ inflight = {}
    /\ running = {}
    /\ held = EmptyDict
    /\ session = NewSession

NextOversample ==
    \/ \E docs \in QueryBatches, p \in SearchParams : Search(docs, p)
    \/ Respond

SpecOversample == InitOversample /\ [][NextOversample]_vars

-----------------------------------------------------------------------------
(* A caller in the same process (a test, another executor method) that keeps *)
(* one parameters dict and passes it to /search and /delete again: the       *)
(* handlers receive the object itself, and filter_docs writes into it.       *)

MaxTranslations == 2

HeldParams == [filter : Filters]

\* the parameters dict after filter_docs (lines 108-113) has run on it
Mutated(p) ==
    IF "filter" \in DOMAIN p THEN [p EXCEPT !.filter = TranslateFilter(@)] ELSE p

\* how many times the leaves of the dict have been prefixed already
PrefixDepth(p) ==
    LET f == Get(p, "filter", EmptyFilter)
    IN  IF f.leaves = <<>> THEN 0 ELSE Len(f.leaves[1].path) - 1

\* the caller builds a new parameters dict
Hold(p) ==
    /\ op = "idle"
    /\ held' = p
    /\ UNCHANGED <<index, op, params, input, pre, ret, err, ranked, aliased,
                   inflight, running, session>>

\* /delete called with the dict the caller holds
DeleteHeld(alias) ==
    /\ op = "idle"
    /\ "filter" \in DOMAIN held
    /\ PrefixDepth(held) < MaxTranslations
    /\ alias => IsEmptyDict(TranslateFilter(Get(held, "filter", EmptyFilter)))
    /\ index' = DeleteLoop(index, filter_docs(index, held), alias)
    /\ held' = Mutated(held)
    /\ op' = "delete"
    /\ params' = held
    /\ input' = <<>>
    /\ pre' = index
    /\ ret' = <<>>
    /\ err' = "none"
    /\ ranked' = <<>>
    /\ aliased' = alias
    /\ UNCHANGED <<inflight, running, session>>

\* /search called with the dict the caller holds
SearchHeld(docs) ==
    LET limit == Get(held, "limit", DefaultLimit)
        path == Get(held, "traversal_paths", DefaultTraversal)
        store == SearchStore(index, held)
        filtered == filter_docs(store, held)
        queries == SearchQueries(docs, path)
    IN  /\ op = "idle"
        /\ "filter" \in DOMAIN held
        /\ PrefixDepth(held) < MaxTranslations
        /\ \E m \in MatchOutcomes(queries, filtered, MatchLimit(limit, path)) :
          LET out == IF m.err = "none" /\ path = "@c"
                     THEN merge_matches(store, m.matches, limit)
                     ELSE m
          IN  /\ index' = store
              /\ held' = Mutated(held)
              /\ op' = "search"
              /\ params' = held
              /\ input' = docs
              /\ pre' = index
              /\ ret' = IF out.err = "none" THEN WithMatches(queries, out.matches) ELSE <<>>
              /\ err' = out.err
              /\ ranked' = m.matches
              /\ aliased' = FALSE
              /\ UNCHANGED <<inflight, running, session>>

NextReuse ==
    \/ \E docs \in Batches : Index(docs)
    \/ \E p \in HeldParams : Hold(p)
    \/ \E alias \in BOOLEAN : DeleteHeld(alias)
    \/ \E docs \in QueryBatches : SearchHeld(docs)
    \/ Respond

SpecReuse == Init /\ [][NextReuse]_vars

-----------------------------------------------------------------------------
(* The playground: call_flow behind deep_freeze_args and functools.lru_cache *)
(* (deployment/playground/src/search.py).  Python values are records of a   *)
(* type tag t and a value v.                                                 *)

lru_maxsize == 10

MaxCalls == 4
MaxRepeats == 1
MaxUnusual == 1
WarmSearches == 9

PyNone == [t |-> "None", v |-> ""]
PyStr(x) == [t |-> "str", v |-> x]
PyDict(f) == [t |-> "dict", v |-> f]
PyList(q) == [t |-> "list", v |-> q]
PyTuple(q) == [t |-> "tuple", v |-> q]

\* lines 14-24: str and None as they are, a Mapping to a frozendict of frozen
\* values, any other Collection to a tuple of frozen items
RECURSIVE deep_freeze(_)
deep_freeze(thing) ==
    CASE thing.t \in {"None", "str"} -> thing
      [] thing.t \in {"dict", "frozendict"} ->
            [t |-> "frozendict", v |-> [k \in DOMAIN thing.v |-> deep_freeze(thing.v[k])]]
      [] thing.t \in {"list", "tuple"} ->
            [t |-> "tuple", v |-> [i \in DOMAIN thing.v |-> deep_freeze(thing.v[i])]]

\* the way the caller wrote the value of the one filter: a list or a tuple
Shapes == {"list", "tuple"}

\* lines 82-97: the arguments search() passes for the n-th query text
CallArgs(n, shape) ==
    PyTuple(<<PyStr("http://now-bff/api/v1/search-app/search"),
              PyDict([host |-> PyStr("gateway"),
                      limit |-> PyStr("9"),
                      filters |-> PyDict([color |-> IF shape = "list"
                                                    THEN PyList(<<PyStr("red")>>)
                                                    ELSE PyTuple(<<PyStr("red")>>)]),
                      query |-> PyDict([query_text |-> PyDict([text |-> PyStr(str(n))])])]),
              PyStr("text"), PyStr("http://now-bff"), PyStr("search")>>)

\* what the request meets: a list of matches, matches with s3:// uris, an error
\* body, or no connection (requests.post raises)
Responses == {"docs", "cloud", "error", "raise"}

\* the cache key of lru_cache(typed=False) for positional arguments
CacheKey(args) == deep_freeze(args).v

Cached(cache, key) == \E i \in 1..Len(cache) : cache[i].key = key

Lookup(cache, key) == (CHOOSE i \in 1..Len(cache) : cache[i].key = key)

Without(q, i) == [k \in 1..(Len(q) - 1) |-> IF k < i THEN q[k] ELSE q[k + 1]]

\* a hit moves the entry to the most recently used end
Touch(cache, key) ==
    LET i == Lookup(cache, key) IN Append(Without(cache, i), cache[i])

\* a miss stores the result and drops nothing
StoreAll(cache, key, result) == Append(cache, [key |-> key, result |-> result])

\* a miss stores the result and, beyond maxsize, drops the least recently used
Store(cache, key, result) ==
    LET c == Append(cache, [key |-> key, result |-> result])
    IN  IF Len(c) > lru_maxsize THEN Tail(c) ELSE c

\* the record of calls: query n becomes the most recently used
Used(ns, n) ==
    Append(SelectSeq(ns, LAMBDA k : k # n), n)

\* lines 107-163 run for the response met: what is returned, the requests sent
\* and error_msg
Outcome(s, n, response) ==
    CASE response = "docs" ->
            [raised |-> FALSE, posts |-> s.posts + 1, error_msg |-> "None",
             result |-> [kind |-> "docs", of |-> n, at |-> s.posts + 1]]
      [] response = "cloud" ->
            [raised |-> FALSE, posts |-> s.posts + 2, error_msg |-> "None",
             result |-> [kind |-> "docs", of |-> n, at |-> s.posts + 2]]
      [] response = "error" ->
            [raised |-> FALSE, posts |-> s.posts + 1, error_msg |-> "message",
             result |-> [kind |-> "None", of |-> n, at |-> 0]]
      [] response = "raise" ->
            [raised |-> TRUE, posts |-> s.posts + 1, error_msg |-> s.error_msg,
             result |-> [kind |-> "raised", of |-> n, at |-> 0]]

\* the session after a call that finds its key in the cache
Hit(s, key, n) ==
    [s EXCEPT !.cache = Touch(@, key),
              !.called = Used(@, n),
              !.returned = Used(@, n),
              !.calls = @ + 1,
              !.repeats = @ + 1]

\* the session after a call that runs call_flow
Miss(s, key, n, response) ==
    LET out == Outcome(s, n, response)
    IN  [s EXCEPT !.search_count = @ + 1,
                  !.error_msg = out.error_msg,
                  !.posts = out.posts,
                  !.cache = IF out.raised THEN @ ELSE Store(@, key, out.result),
                  !.called = Used(@, n),
                  !.returned = IF out.raised THEN @ ELSE Used(@, n),
                  !.calls = @ + 1,
                  !.repeats = IF n <= Len(s.called) THEN @ + 1 ELSE @,
                  !.unusual = IF response # "docs" THEN @ + 1 ELSE @]

CallFlow(n, shape, response) ==
    LET args == CallArgs(n, shape)
        key == CacheKey(args)
        hit == Cached(session.cache, key)
    IN  /\ op = "idle"
        /\ session.calls < MaxCalls
        /\ n <= Len(session.called) + 1
        /\ n <= Len(session.called) => session.repeats < MaxRepeats
        /\ response # "docs" => ~hit /\ session.unusual < MaxUnusual
        /\ session' = IF hit THEN Hit(session, key, n) ELSE Miss(session, key, n, response)
        /\ op' = "call_flow"
        /\ params' = args
        /\ input' = <<n>>
        /\ pre' = session
        /\ ret' = IF hit THEN session.cache[Lookup(session.cache, key)].result
                  ELSE Outcome(session, n, response).result
        /\ err' = IF ~hit /\ response = "raise" THEN "ConnectionError" ELSE "none"
        /\ ranked' = <<>>
        /\ aliased' = FALSE
        /\ UNCHANGED <<index, inflight, running, held>>

\* the session after searches for the first k query texts that all found matches
RECURSIVE Searched(_)
Searched(k) ==
    IF k = 0 THEN NewSession
    ELSE Miss(Searched(k - 1), CacheKey(CallArgs(k, "list")), k, "docs")

InitPlayground ==
    /\ index = <<>>
    /\ op = "idle"
    /\ params = EmptyDict
    /\ input = <<>>
    /\ pre = <<>>
    /\ ret = <<>>
    /\ err = "none"
    /\ ranked = <<>>
    /\ aliased = FALSE
    /\ inflight = {}
    /\ running = {}
    /\ held = EmptyDict
    /\ session \in {NewSession, [Searched(WarmSearches) EXCEPT !.calls = 0]}

NextPlayground ==
    \/ /\ op = "idle"
       /\ \E n \in 1..(WarmSearches + MaxCalls), shape \in Shapes, response \in Responses :
              CallFlow(n, shape, response)
    \/ Respond

SpecPlayground == InitPlayground /\ [][NextPlayground]_vars

-----------------------------------------------------------------------------
(* Properties *)

Limit == Get(params, "limit", DefaultLimit)

Path == Get(params, "traversal_paths", DefaultTraversal)

ChunkSearchReturned == op = "search" /\ err = "none" /\ Path = "@c"

ParentIds(ms) == {ms[k].parent_id : k \in 1..Len(ms)}

\* a document satisfies a filter of the spec: every leaf names a tag with that value
Satisfies(d, f) ==
    \A i \in 1..Len(f.leaves) :
        LET key == f.leaves[i].path[1]
        IN  key \in DOMAIN d.tags /\ d.tags[key] = f.leaves[i].val

\* C1: a chunk-level search that returns gives every query at most `limit`
\* matches, and no two matches of one query have the same id.
C1_DedupBounded ==
    ChunkSearchReturned =>
        \A i \in 1..Len(ret) :
            /\ Len(ret[i].matches) <= Limit
            /\ NoDuplicates(IdsOf(ret[i].matches))

\* C1's case: more than `limit` chunk matches of fewer than `limit` parents.
C1_Witness ==
    /\ ChunkSearchReturned
    /\ \E i \in 1..Len(ret) :
        /\ Len(ranked[i]) > Limit
        /\ Cardinality(ParentIds(ranked[i])) < Limit
        /\ Len(ret[i].matches) >= 1

\* C2: a search, list or filter call leaves the stored collection as it was.
C2_QueriesKeepStore ==
    op \in {"search", "list", "filter"} => index = pre

\* C3: indexing documents with distinct ids into a store that holds one
\* document per id leaves one document per id.
C3_UpsertById ==
    (op = "index" /\ NoDuplicates(IdsOf(pre)) /\ NoDuplicates(IdsOf(input)))
        => NoDuplicates(IdsOf(index))

\* C4: delete with {ids} removes exactly the documents whose id is listed.
C4_DeleteByIds ==
    (op = "delete" /\ DOMAIN params = {"ids"}) =>
        LET Kept(d) == d.id \notin Range(params.ids)
        IN  index = SelectSeq(pre, Kept)

\* C5: delete with a filter {'$and': [leaves]} removes the documents that
\* satisfy it and keeps the others in their order.
C5_DeleteByFilter ==
    (op = "delete" /\ DOMAIN params = {"filter"} /\ params.filter.and) =>
        LET Kept(d) == ~Satisfies(d, params.filter)
        IN  /\ index = SelectSeq(pre, Kept)
            /\ \A k \in 1..Len(index) : ~Satisfies(index[k], params.filter)

\* C5's case: a filtered delete that removed one document and kept another.
C5_Witness ==
    /\ op = "delete" /\ DOMAIN params = {"filter"} /\ params.filter.and
    /\ index # <<>>
    /\ Len(index) < Len(pre)

\* C6: delete with ids none of which is stored changes nothing.
C6_DeleteUnknownIdNoOp ==
    (op = "delete" /\ DOMAIN params = {"ids"}
        /\ Range(params.ids) \cap Range(IdsOf(pre)) = {}) => index = pre

\* C7: list returns the projections (id, uri, tags, no chunks) of the stored
\* documents at the offset+1-th to the offset+limit-th place, offset 0 and
\* no limit when not given; nothing when the offset is beyond the store.
C7_ListSlice ==
    op = "list" =>
        LET offset == Get(params, "offset", 0)
            after == IF Len(index) > offset THEN Len(index) - offset ELSE 0
            count == IF "limit" \in DOMAIN params THEN Min(params.limit, after) ELSE after
        IN  /\ err = "none"
            /\ Len(ret) = count
            /\ \A k \in 1..count :
                ret[k] = [id |-> index[offset + k].id, uri |-> index[offset + k].uri,
                          tags |-> index[offset + k].tags, chunks |-> <<>>]

\* C7's case: an offset and a limit that cut a store of root documents.
C7_Witness ==
    /\ op = "list"
    /\ DOMAIN params = {"limit", "offset"}
    /\ params.offset = 1 /\ params.limit = 1
    /\ Len(index) = 2 /\ index[1].chunks # <<>> /\ index[1].id # index[2].id
    /\ Len(ret) = 1 /\ ret[1].id = index[2].id

\* C8: after index(docs) a list() without parameters holds, for every indexed
\* document, an entry with its id and its tags.
C8_IndexThenList ==
    op = "index" =>
        LET listed == ListResult(index, EmptyDict)
        IN  \A i \in 1..Len(input) : \E k \in 1..Len(listed) :
                listed[k].id = input[i].id /\ listed[k].tags = input[i].tags

\* C8's case: a document indexed into a store that holds its id already.
C8_Witness ==
    /\ op = "index"
    /\ \E i \in 1..Len(input), k \in 1..Len(pre) :
        pre[k].id = input[i].id /\ pre[k].tags # input[i].tags

\* C9: deleting the ids that list() returns leaves nothing for list() to return.
C9_DeleteListedIds ==
    (op = "delete" /\ DOMAIN params = {"ids"}
        /\ params.ids = IdsOf(ListResult(pre, EmptyDict)))
        => ListResult(index, EmptyDict) = <<>>

\* C10: every parent a chunk-level search returns is, chunks stripped, a
\* document of the store as it was, and that document is still stored with
\* its chunks.
C10_ParentsCopied ==
    ChunkSearchReturned =>
        \A i \in 1..Len(ret) : \A k \in 1..Len(ret[i].matches) :
            LET r == ret[i].matches[k]
            IN  /\ r.chunks = <<>>
                /\ \E s \in Range(pre) :
                    /\ s.id = r.id /\ s.tags = r.tags
                    /\ s \in Range(index)

-----------------------------------------------------------------------------
(* Properties of the mapping builder *)

MappingGenerated == op = "generate_es_mapping" /\ err = "none"

PairsOf(document_mappings) ==
    LET pairs == FieldPairs(document_mappings)
    IN  {<<pairs[i].field, pairs[i].encoder>> : i \in 1..Len(pairs)}

SubFieldsNamed(schema, name) == {i \in 1..Len(schema) : schema[i].name = name}

\* C11: a generated schema has exactly one vector sub-field per distinct
\* (field, encoder) pair of the configuration, and no other vector sub-field.
C11_OneSubFieldPerPair ==
    MappingGenerated =>
        /\ \A pr \in PairsOf(input) :
               Cardinality(SubFieldsNamed(ret, pr[1] \o "-" \o pr[2])) = 1
        /\ Cardinality({i \in 1..Len(ret) : ret[i].type = "dense_vector"})
               = Cardinality(PairsOf(input))

\* C12: a generated schema starts with the keyword field 'id' and the analyzed
\* text field 'bm25_text', followed by one sub-field '<field>-<encoder>' per
\* configured pair in configuration order, with the encoder's dimension as a
\* string and the requested metric; clip (8) over title and sbert (5) over
\* title and excerpt give title-clip, title-sbert, excerpt-sbert with '8', '5', '5'.
C12_SchemaShape ==
    MappingGenerated =>
        LET pairs == FieldPairs(input)
        IN  /\ Len(ret) = 2 + Len(pairs)
            /\ ret[1] = [name |-> "id", type |-> "keyword"]
            /\ ret[2].name = "bm25_text" /\ ret[2].type = "text"
            /\ \A i \in 1..Len(pairs) :
                   /\ ret[2 + i].name = pairs[i].field \o "-" \o pairs[i].encoder
                   /\ ret[2 + i].type = "dense_vector"
                   /\ ret[2 + i].similarity = params.metric
                   /\ pairs[i].dim = 5 => ret[2 + i].dims = "5"
                   /\ pairs[i].dim = 8 => ret[2 + i].dims = "8"
                   /\ pairs[i].dim = 12 => ret[2 + i].dims = "12"
            /\ input = TestMappings =>
                   /\ [i \in 1..Len(ret) |-> ret[i].name]
                          = <<"id", "bm25_text", "title-clip", "title-sbert", "excerpt-sbert">>
                   /\ <<ret[3].dims, ret[4].dims, ret[5].dims>> = <<"8", "5", "5">>

\* C12's case: the schema of the configuration of test_generate_es_mappings.
C12_Witness == MappingGenerated /\ input = TestMappings /\ params.metric = "cosine"

\* C13: a configuration with a non-positive dimension, an unsupported metric or
\* a duplicate (field, encoder) pair fails with ConfigurationError and produces
\* no schema.
C13_ConfigurationError ==
    op = "generate_es_mapping" =>
        LET pairs == FieldPairs(input)
        IN  (\/ \E i \in 1..Len(pairs) : pairs[i].dim < 1
             \/ params.metric \notin {"cosine", "l2_norm", "dot_product"}
             \/ Cardinality(PairsOf(input)) < Len(pairs))
            => err = "ConfigurationError" /\ ret = <<>>

\* C13's cases: each of the three kinds of invalid configuration, alone.
C13_Witness ==
    /\ op = "generate_es_mapping" /\ err = "ConfigurationError"
    /\ params.metric = "cosine"
    /\ Cardinality(PairsOf(input)) < Len(FieldPairs(input))
    /\ \A i \in 1..Len(input) : input[i].dim > 0

\* C11's case: two encoders over the same field and one over two fields.
C11_Witness ==
    /\ MappingGenerated
    /\ Cardinality(PairsOf(input)) = 3
    /\ \E pr, ps \in PairsOf(input) : pr[1] = ps[1] /\ pr[2] # ps[2]

-----------------------------------------------------------------------------
(* Properties of the query engine *)

\* C14: with get_score_breakdown, every returned match's score mapping has the
\* key '<query_field>-<document_field>-<encoder>-<linear_weight>' of every
\* configured criterion whose encoder is not bm25, and the keys 'bm25_raw' and
\* 'bm25_normalized' when apply_default_bm25 is set or a criterion names bm25.
C14_ScoreBreakdown ==
    (op = "es_search" /\ params.get_score_breakdown) =>
        \A i \in 1..Len(ret[1].matches) :
            LET keys == DOMAIN ret[1].matches[i].scores
                cs == input.criteria
            IN  /\ \A j \in 1..Len(cs) :
                       cs[j].encoder # "bm25" =>
                           (cs[j].query_field \o "-" \o cs[j].document_field \o "-"
                               \o cs[j].encoder \o "-"
                               \o (IF cs[j].linear_weight = 1 THEN "1" ELSE "3")) \in keys
                /\ (params.apply_default_bm25 \/ \E j \in 1..Len(cs) : cs[j].encoder = "bm25")
                       => {"bm25_raw", "bm25_normalized"} \subseteq keys

\* C14's case: a vector criterion and a bm25 criterion, several matches.
C14_Witness ==
    /\ op = "es_search" /\ params.get_score_breakdown
    /\ Len(ret[1].matches) > 1
    /\ \E j, k \in 1..Len(input.criteria) :
           input.criteria[j].encoder = "bm25" /\ input.criteria[k].encoder = "clip"

-----------------------------------------------------------------------------
(* Properties of the ranking *)

RootSearchReturned == op = "search" /\ err = "none" /\ Path = "@r"

\* C15: the matches of every query of a root-level search are in descending
\* order of score (ascending distance to the query), and matches of equal
\* score are in ascending order of id.
C15_ScoreThenIdOrder ==
    RootSearchReturned =>
        \A i \in 1..Len(ret) :
            \A k \in 1..(Len(ret[i].matches) - 1) :
                LET m == ret[i].matches[k]
                    n == ret[i].matches[k + 1]
                    dm == Distance(input[i].embedding, m.embedding)
                    dn == Distance(input[i].embedding, n.embedding)
                IN  dm < dn \/ (dm = dn /\ IdRank(m.id) <= IdRank(n.id))

-----------------------------------------------------------------------------
(* Properties of the filter translation *)

FilterGiven == op \in {"search", "delete"} /\ "filter" \in DOMAIN params

\* C16: every leaf of a top-level '$and' filter of a search or delete is
\* translated to the same operator and value on the key 'tags__' + k, where k
\* was its key, and no leaf keeps its unprefixed key.
C16_LeavesMovedToTags ==
    (FilterGiven /\ params.filter.and) =>
        LET f == params.filter
            t == TranslateFilter(f)
        IN  /\ t.and
            /\ Len(t.leaves) = Len(f.leaves)
            /\ \A i \in 1..Len(f.leaves) :
                   /\ t.leaves[i].path = <<"tags", f.leaves[i].path[1]>>
                   /\ t.leaves[i].op = f.leaves[i].op
                   /\ t.leaves[i].val = f.leaves[i].val

\* C16's case: a delete whose '$and' filter has two leaves.
C16_Witness == FilterGiven /\ op = "delete" /\ params.filter.and /\ Len(params.filter.leaves) = 2

\* C17: a search or delete whose filter is not a top-level '$and' of leaves
\* fails with FilterError and leaves the store as it was.
C17_UnsupportedFilterFails ==
    (FilterGiven /\ ~params.filter.and /\ params.filter.leaves # <<>>) =>
        err = "FilterError" /\ index = pre

-----------------------------------------------------------------------------
(* Properties of the BFF response *)

\* the content of a match, each kind as the response encodes it
ContentsOf(m) ==
    {r \in {[kind |-> "uri", value |-> m.uri],
            [kind |-> "blob", value |-> B64(m.blob)],
            [kind |-> "text", value |-> m.text]} : m[r.kind] # ""}

\* C20: a /search response has one entry per match of the first returned
\* document, in the order of the matches, and the i-th entry carries the id,
\* the scores, the tags and the content of the i-th match.
C20_EntryPerMatch ==
    (op = "bff_search" /\ err = "none") =>
        LET ms == input[1].matches
        IN  /\ Len(ret) = Len(ms)
            /\ \A i \in 1..Len(ms) :
                   /\ ret[i].id = ms[i].id
                   /\ ret[i].tags = ms[i].tags
                   /\ DOMAIN ret[i].scores = DOMAIN ms[i].scores
                   /\ \A n \in DOMAIN ms[i].scores :
                          ret[i].scores[n].value = ms[i].scores[n].value
                   /\ ret[i].fields.result_field \in ContentsOf(ms[i])

-----------------------------------------------------------------------------
(* Properties of requests in flight *)

Quiet == inflight = {} /\ running = {}

StoredUnder(da, id) == LET Has(d) == d.id = id IN SelectSeq(da, Has)

\* C18: last writer wins: when an /index call has returned and no other request
\* is in flight or running, the store holds under each id of the call exactly
\* what that call wrote under it.
C18_LastWriterWins ==
    (op = "index" /\ Quiet) =>
        \A i \in 1..Len(input) :
            StoredUnder(index, input[i].id) = StoredUnder(input, input[i].id)

\* the store a /search reads: self.index, as it was when the request was
\* taken, under the request's traversal path
Snapshot == SearchStore(pre, params)

-----------------------------------------------------------------------------
(* Properties of the deduplication *)

\* the parent ids of a ranking in the order of their first appearance
RECURSIVE FirstParents(_, _)
FirstParents(ms, seen) ==
    IF ms = <<>> THEN <<>>
    ELSE IF Head(ms).parent_id \in seen THEN FirstParents(Tail(ms), seen)
    ELSE <<Head(ms).parent_id>> \o FirstParents(Tail(ms), seen \cup {Head(ms).parent_id})

\* C21: the i-th parent a chunk-level search returns for a query has the parent
\* id of the i-th chunk match of the ranking whose parent id had not appeared
\* earlier in the ranking.
C21_BestChunkOrder ==
    ChunkSearchReturned =>
        \A i \in 1..Len(ret) :
            LET firsts == FirstParents(ranked[i], {})
            IN  IdsOf(ret[i].matches) = SubSeq(firsts, 1, Min(Limit, Len(firsts)))

\* C21's case: two parents returned from a ranking in which a chunk of the
\* first parent comes again after the second parent's best chunk.
C21_Witness ==
    /\ ChunkSearchReturned
    /\ \E i \in 1..Len(ret) :
           /\ Len(ret[i].matches) = 2
           /\ \E j, k \in 1..Len(ranked[i]) :
                  /\ j < k
                  /\ ranked[i][j].parent_id = ret[i].matches[2].id
                  /\ ranked[i][k].parent_id = ret[i].matches[1].id

\* C22: for limit >= 1 a chunk-level search that returns gives every query
\* min(limit, number of distinct parent ids in its ranking) parents.
C22_CountIsMin ==
    (ChunkSearchReturned /\ Limit >= 1) =>
        \A i \in 1..Len(ret) :
            Len(ret[i].matches) = Min(Limit, Cardinality(ParentIds(ranked[i])))

\* C22's case: the limit is completed before the ranking ends, by a ranking
\* that has more distinct parents than the limit.
C22_Witness ==
    /\ ChunkSearchReturned /\ Limit >= 1
    /\ \E i \in 1..Len(ret) :
           /\ Len(ret[i].matches) = Limit
           /\ Cardinality(ParentIds(ranked[i])) > Limit

\* the chunks a chunk-level search ranks: the filtered chunk view of the store
Candidates == filter_docs(Snapshot, params)

\* C23: a chunk-level search ranks at most limit * 10 chunks per query, and
\* when the candidate chunks have at least limit distinct parents, every query
\* gets exactly limit parents.
C23_OversamplingSuffices ==
    (ChunkSearchReturned /\ Limit >= 1) =>
        \A i \in 1..Len(ret) :
            /\ Len(ranked[i]) = Min(Limit * OversampleFactor, Len(Candidates))
            /\ Cardinality(ParentIds(Candidates)) >= Limit
                   => Len(ret[i].matches) = Limit

-----------------------------------------------------------------------------
(* Properties of the translation on a kept parameters dict *)

\* C24: after a search or delete the caller's parameters dict is as it was
\* passed, and the filter the call translated has every tag key prefixed once.
C24_TranslationPure ==
    (op \in {"search", "delete"} /\ "filter" \in DOMAIN params) =>
        /\ held = params
        /\ params.filter.and =>
               \A i \in 1..Len(params.filter.leaves) :
                   Len(TranslateFilter(params.filter).leaves[i].path) = 2

-----------------------------------------------------------------------------
(* Properties of the search response and of delete *)

\* C25: a search that returns has an entry for every query document of the
\* request: the document itself at root level, one of its chunks at chunk level.
C25_EveryQueryAnswered ==
    (op = "search" /\ err = "none") =>
        \A i \in 1..Len(input) : \E k \in 1..Len(ret) :
            IF Path = "@r" THEN ret[k].id = input[i].id
                           ELSE ret[k].id[1] = input[i].id

\* C26: the parent lookup of a chunk-level search never fails with KeyError.
C26_ParentLookupSucceeds ==
    (op = "search" /\ Path = "@c") => err # "KeyError"

\* C27: a filter of leaves without '$and' selects the documents the same leaves
\* inside '$and' select.
C27_BareLeavesOnTags ==
    (FilterGiven /\ ~params.filter.and /\ params.filter.leaves # <<>>) =>
        Candidates = filter_docs(Snapshot, [filter |-> AndFilter(params.filter.leaves)])

\* C29: a delete without a 'filter' key leaves the store empty.
C29_DeleteWithoutFilterEmpties ==
    (op = "delete" /\ "filter" \notin DOMAIN params) => index = <<>>

\* C28: the result_field of every entry of a /search response is its own
\* match's uri, else its base64 blob, else its text, and the entry of a match
\* with none of the three carries no content of an earlier match.
C28_OwnContentByPriority ==
    (op = "bff_search" /\ err = "none") =>
        \A i \in 1..Len(ret) :
            LET m == input[1].matches[i]
                r == ret[i].fields.result_field
            IN  /\ m.uri # "" => r = [kind |-> "uri", value |-> m.uri]
                /\ (m.uri = "" /\ m.blob # "") => r = [kind |-> "blob", value |-> B64(m.blob)]
                /\ (m.uri = "" /\ m.blob = "" /\ m.text # "") =>
                       r = [kind |-> "text", value |-> m.text]
                /\ (m.uri = "" /\ m.blob = "" /\ m.text = "") =>
                       \A j \in 1..(i - 1) : r \notin ContentsOf(input[1].matches[j])

-----------------------------------------------------------------------------
(* Properties of the playground's memoized call_flow *)

\* the query numbers among the lru_maxsize most recently used of a record
Recent(ns) == {ns[i] : i \in {j \in 1..Len(ns) : j > Len(ns) - lru_maxsize}}

\* the call returned an outcome stored by an earlier call: no request, no count
Replayed ==
    /\ err = "none"
    /\ session.posts = pre.posts
    /\ session.search_count = pre.search_count
    /\ ret.of = input[1]
    /\ ret.kind \in {"docs", "None"}
    /\ ret.at <= pre.posts

\* C30 as stated: a call_flow whose arguments are among the 10 most recently
\* used argument sets of the earlier calls returns the stored outcome without
\* a request and without counting, and any other call counts exactly once.
C30_Memoized ==
    op = "call_flow" =>
        IF input[1] \in Recent(pre.called)
        THEN Replayed
        ELSE session.search_count = pre.search_count + 1

\* C30 amended: a call_flow whose arguments are among the 10 most recently used
\* argument sets of the earlier calls that returned (documents or None) returns
\* the stored outcome without a request and without counting; any other call
\* sends a request and counts exactly once, whether it returns or raises.
C30_MemoizedReturned ==
    op = "call_flow" =>
        IF input[1] \in Recent(pre.returned)
        THEN Replayed
        ELSE /\ session.search_count = pre.search_count + 1
             /\ session.posts > pre.posts

\* a stored None is replayed after the cache has evicted an earlier entry
C30_Witness ==
    /\ op = "call_flow"
    /\ input[1] \in Recent(pre.returned)
    /\ Len(pre.returned) > lru_maxsize
    /\ ret.kind = "None"

====
